---------------------------- MODULE Spec2Model ----------------------------
(***************************************************************************)
(* Model of pulumi-start-aws/__main__.py: the two ConfigGroup              *)
(* transformations (replace_images_with_ecr, apply_namespace), the kompose *)
(* files verification pass, the deployment loop and the exports.           *)
(*                                                                         *)
(* Python strings that the program takes apart (image references, resource *)
(* names) are sequences of one-character strings; strings that are only    *)
(* compared (kind, namespace, dictionary keys) are TLA+ strings.  A Python *)
(* dict is a function whose DOMAIN is the set of keys present.             *)
(***************************************************************************)
EXTENDS Integers, Sequences, FiniteSets, TLC

VARIABLES
    \* ---- the program run -------------------------------------------------
    pc,                  \* position of the top-level script
    idx,                 \* index of the running `for` loop
    fs,                  \* the kompose_files directory of every service
    registered,          \* resources the script has registered so far
    created,             \* resources the engine has created so far
    built_images,        \* line 56: build name -> registered awsx.ecr.Image
    service_image_map,   \* line 72: ordered (service name, image_uri) items
    services_with_files, \* line 156
    deployed_count,      \* line 191
    ui_service,          \* line 190
    config_groups,       \* ConfigGroups constructed: service -> its arguments
    diag,                \* pulumi.log.error / warn / info calls of the loop
    exports,             \* pulumi.export calls of lines 227-228
    \* ---- one document through a ConfigGroup's transformations ------------
    obj,                 \* the document being transformed (mutated in place)
    doc0,                \* the document as decoded from its file
    tstep,               \* number of transformations already invoked
    log                  \* pulumi.log.info calls of replace_images_with_ecr

runVars == <<pc, idx, fs, registered, created, built_images, service_image_map,
             services_with_files, deployed_count, ui_service, config_groups,
             diag, exports>>
docVars == <<obj, doc0, tstep, log>>
vars == <<pc, idx, fs, registered, created, built_images, service_image_map,
          services_with_files, deployed_count, ui_service, config_groups,
          diag, exports, obj, doc0, tstep, log>>

---------------------------------------------------------------------------
(* Bounds of the model *)

MaxContainers == 2      \* longest containers list of a document
MaxInitContainers == 1  \* longest initContainers list of a document

---------------------------------------------------------------------------
(* Python strings and dicts *)

EmptyStr == << >>
EmptyDict == [k \in {} |-> {}]

\* d.get(k, default)
Get(d, k, default) == IF k \in DOMAIN d THEN d[k] ELSE default

\* d[k] = v
SetKey(d, k, v) == [x \in (DOMAIN d) \cup {k} |-> IF x = k THEN v ELSE d[x]]

\* The value reached through nested .get(key, {}) calls.
RECURSIVE GetPath(_, _)
GetPath(d, path) ==
    IF path = << >> THEN d
    ELSE GetPath(Get(d, Head(path), EmptyDict), Tail(path))

\* TRUE when every key of the path is present, so that a value reached
\* through the .get chain is part of the document and not a fresh {}.
RECURSIVE HasPath(_, _)
HasPath(d, path) ==
    IF path = << >> THEN TRUE
    ELSE Head(path) \in DOMAIN d /\ HasPath(d[Head(path)], Tail(path))

\* The document after an in-place mutation of the value at an existing path.
RECURSIVE SetPath(_, _, _)
SetPath(d, path, v) ==
    IF path = << >> THEN v
    ELSE SetKey(d, Head(path), SetPath(d[Head(path)], Tail(path), v))

\* s.startswith(p)
StartsWith(s, p) == Len(s) >= Len(p) /\ SubSeq(s, 1, Len(p)) = p

\* p in s
Contains(s, p) ==
    \E k \in 1..(Len(s) - Len(p) + 1) : SubSeq(s, k, k + Len(p) - 1) = p

\* s.lower(), over the letters the modelled names use
LowerChar(c) ==
    CASE c = "U" -> "u"
      [] c = "I" -> "i"
      [] c = "S" -> "s"
      [] OTHER -> c
Lower(s) == [k \in 1..Len(s) |-> LowerChar(s[k])]

---------------------------------------------------------------------------
(* Program constants *)

namespace_name == "retailstore"

images == << "app-orders", "app-catalog", "app-cart", "ui-ui", "app-checkout" >>

services == << "cart", "catalog", "checkout", "orders", "ui" >>

\* The characters of the service names used as keys of service_image_map.
NameChars(s) ==
    CASE s = "catalog"  -> << "c", "a", "t", "a", "l", "o", "g" >>
      [] s = "cart"     -> << "c", "a", "r", "t" >>
      [] s = "orders"   -> << "o", "r", "d", "e", "r", "s" >>
      [] s = "ui"       -> << "u", "i" >>
      [] s = "checkout" -> << "c", "h", "e", "c", "k", "o", "u", "t" >>

\* The image_uri output of the awsx.ecr.Image registered under a build name:
\* the repository URL followed by what identifies the build.
ImageUri(image) == << "r", "e", "p", "o", "/", image >>

\* The service_image_map literal: its items in insertion order.
ServiceImageMap(built) ==
    << [service_name |-> NameChars("catalog"),  ecr_uri |-> built["app-catalog"].image_uri],
       [service_name |-> NameChars("cart"),     ecr_uri |-> built["app-cart"].image_uri],
       [service_name |-> NameChars("orders"),   ecr_uri |-> built["app-orders"].image_uri],
       [service_name |-> NameChars("ui"),       ecr_uri |-> built["ui-ui"].image_uri],
       [service_name |-> NameChars("checkout"), ecr_uri |-> built["app-checkout"].image_uri] >>

AllBuilt == [n \in {images[k] : k \in 1..Len(images)} |-> [image_uri |-> ImageUri(n)]]

WorkloadKinds == {"Deployment", "StatefulSet", "DaemonSet", "Job", "CronJob"}

---------------------------------------------------------------------------
(* apply_namespace, lines 80-87 *)

\* Variant: the metadata dict is replaced instead of updated.
apply_namespace_replacing(o) ==
    IF "metadata" \in DOMAIN o
    THEN SetKey(o, "metadata", [namespace |-> namespace_name])
    ELSE o

\* Variant: only a missing namespace is filled in.
apply_namespace_if_missing(o) ==
    IF "metadata" \in DOMAIN o /\ "namespace" \notin DOMAIN o["metadata"]
    THEN SetKey(o, "metadata", SetKey(o["metadata"], "namespace", namespace_name))
    ELSE o

apply_namespace(o) ==
    IF "metadata" \in DOMAIN o
    THEN LET metadata == o["metadata"]
         IN  IF "namespace" \notin DOMAIN metadata
                \/ metadata["namespace"] # namespace_name
             THEN SetKey(o, "metadata", SetKey(metadata, "namespace", namespace_name))
             ELSE o
    ELSE o

---------------------------------------------------------------------------
(* replace_images_with_ecr, lines 91-146 *)

\* Variant: the service:tag pattern is not matched.
MatchesExact(current_image, service_name) == current_image = service_name

\* Line 123: exact service name, or the service:tag pattern.
Matches(current_image, service_name) ==
    \/ current_image = service_name
    \/ StartsWith(current_image, service_name \o << ":" >>)

\* Lines 121-126: the items of the table in order, stopping at the first
\* match; the index of the item that matched, 0 when the loop falls through.
RECURSIVE FirstMatch(_, _, _)
FirstMatch(current_image, table, k) ==
    IF k > Len(table) THEN 0
    ELSE IF Matches(current_image, table[k].service_name) THEN k
    ELSE FirstMatch(current_image, table, k + 1)

\* Lines 118-126 on one container.
RewriteContainer(container, table) ==
    LET current_image == Get(container, "image", EmptyStr)
        m == FirstMatch(current_image, table, 1)
    IN  IF m = 0 THEN container
        ELSE SetKey(container, "image", table[m].ecr_uri)

\* Lines 117-126 (and 130-136) on a list of containers.
RewriteList(cs, table) == [k \in 1..Len(cs) |-> RewriteContainer(cs[k], table)]

\* The pulumi.log.info calls of one of the two loops, in order.
RECURSIVE RewriteLog(_, _, _)
RewriteLog(cs, table, what) ==
    IF cs = << >> THEN << >>
    ELSE LET current_image == Get(Head(cs), "image", EmptyStr)
             m == FirstMatch(current_image, table, 1)
         IN  (IF m = 0 THEN << >>
              ELSE << [msg |-> what, image |-> current_image,
                       service |-> table[m].service_name] >>)
             \o RewriteLog(Tail(cs), table, what)

\* Lines 102-113: where the pod spec of a workload lives.
PodSpecPath(kind) ==
    IF kind = "CronJob"
    THEN << "spec", "jobTemplate", "spec", "template", "spec" >>
    ELSE << "spec", "template", "spec" >>

\* Lines 116 and 129: the list a loop runs over.
ContainerList(pod_spec, key) == Get(pod_spec, key, << >>)

\* Lines 115-136 on the pod spec.
RewritePodSpec(pod_spec, table) ==
    LET p1 == IF "containers" \in DOMAIN pod_spec
              THEN SetKey(pod_spec, "containers",
                          RewriteList(pod_spec["containers"], table))
              ELSE pod_spec
    IN  IF "initContainers" \in DOMAIN p1
        THEN SetKey(p1, "initContainers",
                    RewriteList(p1["initContainers"], table))
        ELSE p1

\* Line 143: the name of a Service names the UI.
IsUiName(name) == Contains(Lower(name), << "u", "i" >>)

\* Lines 139-146: spec = obj.get("spec", {}); spec["type"] = "LoadBalancer".
\* The assignment reaches the document only when it has a spec.
MakeLoadBalancer(o) ==
    IF "spec" \in DOMAIN o
    THEN SetKey(o, "spec", SetKey(o["spec"], "type", "LoadBalancer"))
    ELSE o

\* Variant: the kind of the document is not looked at.
replace_images_any_kind(o, table) ==
    LET path == << "spec", "template", "spec" >>
    IN  IF HasPath(o, path)
        THEN SetPath(o, path, RewritePodSpec(GetPath(o, path), table))
        ELSE o

\* The document after replace_images_with_ecr(obj, opts).
replace_images_with_ecr(o, table) ==
    LET kind == Get(o, "kind", "")
        path == PodSpecPath(kind)
        name == Get(Get(o, "metadata", EmptyDict), "name", EmptyStr)
    IN  IF kind \in WorkloadKinds
        THEN IF HasPath(o, path)
             THEN SetPath(o, path, RewritePodSpec(GetPath(o, path), table))
             ELSE o
        ELSE IF kind = "Service" /\ IsUiName(name)
             THEN MakeLoadBalancer(o)
             ELSE o

\* The pulumi.log.info calls of replace_images_with_ecr(obj, opts).
replace_images_log(o, table) ==
    LET kind == Get(o, "kind", "")
        pod_spec == GetPath(o, PodSpecPath(kind))
        name == Get(Get(o, "metadata", EmptyDict), "name", EmptyStr)
    IN  IF kind \in WorkloadKinds
        THEN RewriteLog(ContainerList(pod_spec, "containers"), table, "image")
             \o RewriteLog(ContainerList(pod_spec, "initContainers"), table, "init")
        ELSE IF kind = "Service" /\ IsUiName(name)
             THEN << [msg |-> "loadbalancer", name |-> name] >>
             ELSE << >>

\* Line 208: the transformations of every ConfigGroup, in order.
transformations == << "replace_images_with_ecr", "apply_namespace" >>

\* One transformation invoked on a document.
Invoke(t, o, table) ==
    IF t = "replace_images_with_ecr" THEN replace_images_with_ecr(o, table)
    ELSE apply_namespace(o)

InvokeLog(t, o, table) ==
    IF t = "replace_images_with_ecr" THEN replace_images_log(o, table)
    ELSE << >>

---------------------------------------------------------------------------
(* The documents a kompose_files directory may hold *)

\* Image references: an exact service name, a service:tag, a name that only
\* begins like a service, and an unrelated image.
Images ==
    { << "c", "a", "r", "t" >>,
      << "u", "i", ":", "1" >>,
      << "c", "a", "r", "t", "x" >>,
      << "n", "g", "i", "n", "x" >> }

Containers ==
    { [name |-> "c"] } \cup { [name |-> "c", image |-> i] : i \in Images }

ContainerLists(n) == UNION { [1..k -> Containers] : k \in 0..n }

\* Pod specs: every containers list alone, and every initContainers list
\* beside no containers key or a containers list of at most one container.
PodSpecs ==
    LET base == [restartPolicy |-> "Always"]
        withC(n) == {base} \cup { SetKey(base, "containers", cs) :
                                    cs \in ContainerLists(n) }
    IN  withC(MaxContainers)
        \cup { SetKey(p, "initContainers", cs) :
                 p \in withC(1), cs \in ContainerLists(MaxInitContainers) }

\* spec sub-trees that hold a pod spec: under template, or under jobTemplate.
TemplateSpec(pod) == [replicas |-> 1, template |-> [spec |-> pod]]
JobTemplateSpec(pod) ==
    [schedule |-> "daily", jobTemplate |-> [spec |-> [template |-> [spec |-> pod]]]]

WorkloadSpecs ==
    { TemplateSpec(p) : p \in PodSpecs } \cup { JobTemplateSpec(p) : p \in PodSpecs }

\* Resource names: the UI service, a capitalised one, a name that holds no
\* "ui", and one where the two letters are apart.
Names ==
    { << "u", "i", "-", "s", "v", "c" >>,
      << "U", "I" >>,
      << "c", "a", "r", "t" >>,
      << "u", "-", "i" >> }

Namespaces == { namespace_name, "default" }

Metadatas ==
    LET base == [labels |-> "app"]
        withName == {base} \cup { SetKey(base, "name", n) : n \in Names }
    IN  withName \cup { SetKey(m, "namespace", ns) : m \in withName, ns \in Namespaces }

WorkloadMetadatas ==
    { [labels |-> "app", name |-> << "c", "a", "r", "t" >>],
      [labels |-> "app", name |-> << "c", "a", "r", "t" >>, namespace |-> "default"] }

ServiceSpecs ==
    { [ports |-> 80],
      [ports |-> 80, type |-> "ClusterIP"],
      [ports |-> 80, type |-> "LoadBalancer"] }

\* A pod spec whose containers name services, for documents that are not
\* workloads.
SamplePod ==
    [restartPolicy |-> "Always",
     containers |-> << [name |-> "c", image |-> << "c", "a", "r", "t" >>] >>,
     initContainers |-> << [name |-> "c", image |-> << "u", "i", ":", "1" >>] >>]

\* kind, then optionally metadata and spec.
WithOptional(base, metas, specs) ==
    LET withM == {base} \cup { SetKey(base, "metadata", m) : m \in metas }
    IN  withM \cup { SetKey(d, "spec", sp) : d \in withM, sp \in specs }

WorkloadDocs ==
    UNION { WithOptional([apiVersion |-> "v1", kind |-> k],
                         WorkloadMetadatas, WorkloadSpecs) : k \in WorkloadKinds }

ServiceDocs ==
    WithOptional([apiVersion |-> "v1", kind |-> "Service"], Metadatas,
                 ServiceSpecs \cup {TemplateSpec(SamplePod)})

\* Documents of another kind, and documents that have no kind at all.
OtherDocs ==
    WithOptional([apiVersion |-> "v1", kind |-> "ConfigMap"], Metadatas,
                 {TemplateSpec(SamplePod), JobTemplateSpec(SamplePod)} \cup ServiceSpecs)
    \cup WithOptional([apiVersion |-> "v1"], Metadatas,
                      {TemplateSpec(SamplePod)} \cup ServiceSpecs)

Docs == WorkloadDocs \cup ServiceDocs \cup OtherDocs

---------------------------------------------------------------------------
(* The kompose_files directories and the resources of the run *)

ServiceSet == { services[k] : k \in 1..Len(services) }
ImageSet == { images[k] : k \in 1..Len(images) }

\* A directory: absent, or present with its number of *.yaml and of *.yml
\* files: empty, one kind of file only, or both.
MissingDir == [exists |-> FALSE, yaml |-> 0, yml |-> 0]
DirStates ==
    { MissingDir,
      [exists |-> TRUE, yaml |-> 0, yml |-> 0],
      [exists |-> TRUE, yaml |-> 2, yml |-> 0],
      [exists |-> TRUE, yaml |-> 0, yml |-> 1],
      [exists |-> TRUE, yaml |-> 1, yml |-> 1] }

\* Path(kompose_files_dir).glob("*.<ext>")
Glob(dir, ext) == { [ext |-> ext, n |-> k] : k \in 1..dir[ext] }

\* Lines 165-167 and 199-201: all_files = yaml_files + yml_files
AllFiles(dir) == Glob(dir, "yaml") \cup Glob(dir, "yml")

\* Line 207: files=[f"{kompose_files_dir}/*.yaml"], as the ConfigGroup
\* resolves the pattern.
ConfigGroupFiles(dir) == Glob(dir, "yaml")

NamespaceRes == << "namespace", namespace_name >>
ImageRes(image) == << "image", image >>
GroupRes(service) == << "kompose", service >>

\* Variant: the image builds are left out of depends_on.
DependsOnNamespace(built) == {NamespaceRes}

\* Line 211: depends_on=[namespace] + list(built_images.values())
DependsOn(built) == {NamespaceRes} \cup { ImageRes(n) : n \in DOMAIN built }

NoExports == [k \in {} |-> 0]
None == "None"

---------------------------------------------------------------------------
(* The script, statement by statement from line 42 on *)

\* Lines 44-48: the Namespace resource.
RegisterNamespace ==
    /\ pc = "namespace"
    /\ registered' = registered \cup {NamespaceRes}
    /\ pc' = "images"
    /\ idx' = 1
    /\ UNCHANGED <<fs, created, built_images, service_image_map,
                   services_with_files, deployed_count, ui_service,
                   config_groups, diag, exports>>
    /\ UNCHANGED docVars

\* Lines 57-69: one iteration of the build loop.
BuildImage ==
    /\ pc = "images"
    /\ LET image == images[idx]
       IN  /\ registered' = registered \cup {ImageRes(image)}
           /\ built_images' = (image :> [image_uri |-> ImageUri(image)]) @@ built_images
    /\ IF idx < Len(images)
       THEN idx' = idx + 1 /\ pc' = pc
       ELSE idx' = 1 /\ pc' = "map"
    /\ UNCHANGED <<fs, created, service_image_map, services_with_files,
                   deployed_count, ui_service, config_groups, diag, exports>>
    /\ UNCHANGED docVars

\* Lines 72-78: the service_image_map literal.
BuildMap ==
    /\ pc = "map"
    /\ service_image_map' = ServiceImageMap(built_images)
    /\ pc' = "verify"
    /\ idx' = 1
    /\ UNCHANGED <<fs, registered, created, built_images, services_with_files,
                   deployed_count, ui_service, config_groups, diag, exports>>
    /\ UNCHANGED docVars

\* Variant: only the *.yaml files make a service count.
VerifyServiceYamlOnly(service, dir, found) ==
    IF dir.exists /\ Glob(dir, "yaml") # {} THEN Append(found, service) ELSE found

\* Lines 164-178 for one service: the list after the iteration.
VerifyService(service, dir, found) ==
    IF dir.exists
    THEN IF AllFiles(dir) # {} THEN Append(found, service) ELSE found
    ELSE found

\* Lines 157-178: one iteration of the verification loop.
Verify ==
    /\ pc = "verify"
    /\ LET service == services[idx]
       IN  services_with_files' =
               VerifyService(service, fs[service], services_with_files)
    /\ IF idx < Len(services)
       THEN idx' = idx + 1 /\ pc' = pc
       ELSE idx' = 1 /\ pc' = "check"
    /\ UNCHANGED <<fs, registered, created, built_images, service_image_map,
                   deployed_count, ui_service, config_groups, diag, exports>>
    /\ UNCHANGED docVars

\* Lines 184-187: the diagnostics of an empty services_with_files.
CheckDiag(found) ==
    IF found = << >>
    THEN << [level |-> "error", about |-> "NO KOMPOSE FILES FOUND"],
            [level |-> "error", about |-> "Run this command:"],
            [level |-> "error", about |-> "kompose convert"] >>
    ELSE << >>

\* Lines 184-191: the check, then ui_service = None and deployed_count = 0.
\* Nothing raises or exits: the script goes on to the deployment loop.
CheckFound ==
    /\ pc = "check"
    /\ diag' = diag \o CheckDiag(services_with_files)
    /\ ui_service' = None
    /\ deployed_count' = 0
    /\ pc' = "deploy"
    /\ idx' = 1
    /\ UNCHANGED <<fs, registered, created, built_images, service_image_map,
                   services_with_files, config_groups, exports>>
    /\ UNCHANGED docVars

\* Variant: an empty directory is not told from one with files.
DeployGuardExists(dir) == dir.exists

\* Lines 198-203: the service is deployed in this iteration.
DeployGuard(dir) == dir.exists /\ AllFiles(dir) # {}

\* Lines 205-213: the arguments of the ConfigGroup.
ConfigGroupArgs(dir, built) ==
    [files |-> ConfigGroupFiles(dir),
     transformations |-> transformations,
     depends_on |-> DependsOn(built)]

\* Lines 221-225: the message of the iteration.
DeployDiag(service, dir) ==
    IF dir.exists
    THEN IF AllFiles(dir) # {}
         THEN [level |-> "info", about |-> service, files |-> Cardinality(AllFiles(dir))]
         ELSE [level |-> "warn", about |-> service, files |-> 0]
    ELSE [level |-> "warn", about |-> service, files |-> 0]

\* Lines 194-225: one iteration of the deployment loop.
Deploy ==
    /\ pc = "deploy"
    /\ LET service == services[idx]
           dir == fs[service]
       IN  /\ IF DeployGuard(dir)
              THEN /\ config_groups' =
                          (service :> ConfigGroupArgs(dir, built_images)) @@ config_groups
                   /\ registered' = registered \cup {GroupRes(service)}
                   /\ deployed_count' = deployed_count + 1
                   /\ ui_service' = IF service = "ui" THEN GroupRes(service)
                                    ELSE ui_service
              ELSE UNCHANGED <<config_groups, registered, deployed_count, ui_service>>
           /\ diag' = Append(diag, DeployDiag(service, dir))
    /\ IF idx < Len(services)
       THEN idx' = idx + 1 /\ pc' = pc
       ELSE idx' = 1 /\ pc' = "export"
    /\ UNCHANGED <<fs, created, built_images, service_image_map,
                   services_with_files, exports>>
    /\ UNCHANGED docVars

\* Lines 227-228.
Exports(found, count) == [deployed_services |-> found, deployed_count |-> count]

Export ==
    /\ pc = "export"
    /\ exports' = Exports(services_with_files, deployed_count)
    /\ pc' = "done"
    /\ UNCHANGED <<idx, fs, registered, created, built_images, service_image_map,
                   services_with_files, deployed_count, ui_service,
                   config_groups, diag>>
    /\ UNCHANGED docVars

---------------------------------------------------------------------------
(* The engine: it creates a registered resource once everything the      *)
(* resource depends on has been created, in any order that allows.       *)

ResourceDeps(r) ==
    IF r[1] = "kompose" THEN config_groups[r[2]].depends_on ELSE {}

CreateResource ==
    /\ \E r \in registered \ created :
          /\ ResourceDeps(r) \subseteq created
          /\ created' = created \cup {r}
    /\ UNCHANGED <<pc, idx, fs, registered, built_images, service_image_map,
                   services_with_files, deployed_count, ui_service,
                   config_groups, diag, exports>>
    /\ UNCHANGED docVars

---------------------------------------------------------------------------
(* A ConfigGroup invoking its transformations on one decoded document *)

Transform ==
    /\ tstep < Len(transformations)
    /\ obj' = Invoke(transformations[tstep + 1], obj, service_image_map)
    /\ log' = log \o InvokeLog(transformations[tstep + 1], obj, service_image_map)
    /\ tstep' = tstep + 1
    /\ UNCHANGED doc0
    /\ UNCHANGED runVars

---------------------------------------------------------------------------
(* Specifications *)

IdleDoc == [apiVersion |-> "v1"]

\* The script before line 42, with no document in hand.
InitRun(dirs) ==
    /\ pc = "namespace"
    /\ idx = 1
    /\ fs \in [ServiceSet -> dirs]
    /\ registered = {}
    /\ created = {}
    /\ built_images = [n \in {} |-> 0]
    /\ service_image_map = << >>
    /\ services_with_files = << >>
    /\ deployed_count = 0
    /\ ui_service = None
    /\ config_groups = [n \in {} |-> 0]
    /\ diag = << >>
    /\ exports = NoExports
    /\ obj = IdleDoc
    /\ doc0 = IdleDoc
    /\ tstep = Len(transformations)
    /\ log = << >>

Init == InitRun(DirStates)

Next ==
    \/ RegisterNamespace
    \/ BuildImage
    \/ BuildMap
    \/ Verify
    \/ CheckFound
    \/ Deploy
    \/ Export

\* The script alone.
Spec == Init /\ [][Next]_vars

\* The script and the engine side by side, over directories that are
\* missing, empty, or hold one manifest.
EngineDirs ==
    { MissingDir,
      [exists |-> TRUE, yaml |-> 0, yml |-> 0],
      [exists |-> TRUE, yaml |-> 1, yml |-> 0] }

InitEngine == InitRun(EngineDirs)

NextEngine == Next \/ CreateResource

SpecEngine == InitEngine /\ [][NextEngine]_vars

\* One document of a deployed service, once the script has built the table.
InitDoc ==
    /\ pc = "deploy"
    /\ idx = 1
    /\ fs = [s \in ServiceSet |-> [exists |-> TRUE, yaml |-> 1, yml |-> 0]]
    /\ registered = {NamespaceRes} \cup { ImageRes(n) : n \in ImageSet }
    /\ created = {}
    /\ built_images = AllBuilt
    /\ service_image_map = ServiceImageMap(AllBuilt)
    /\ services_with_files = services
    /\ deployed_count = 0
    /\ ui_service = None
    /\ config_groups = [n \in {} |-> 0]
    /\ diag = << >>
    /\ exports = NoExports
    /\ obj \in Docs
    /\ doc0 = obj
    /\ tstep = 0
    /\ log = << >>

NextDoc == Transform

SpecDoc == InitDoc /\ [][NextDoc]_vars

---------------------------------------------------------------------------
(* What the properties below speak of, stated apart from the operators   *)
(* that model the code                                                    *)

Str_cart == << "c", "a", "r", "t" >>
Str_cartx == << "c", "a", "r", "t", "x" >>
Str_ui1 == << "u", "i", ":", "1" >>

Kind(d) == IF "kind" \in DOMAIN d THEN d["kind"] ELSE "none"

RecognizedKinds ==
    {"Deployment", "StatefulSet", "DaemonSet", "Job", "CronJob", "Service"}

\* The image names item k of the table: the name itself, or name:tag.
NamesService(image, k) ==
    LET n == service_image_map[k].service_name
    IN  \/ image = n
        \/ /\ Len(image) > Len(n)
           /\ \A j \in 1..Len(n) : image[j] = n[j]
           /\ image[Len(n) + 1] = ":"

IsKnownImage(c) ==
    /\ "image" \in DOMAIN c
    /\ \E k \in 1..Len(service_image_map) : NamesService(c["image"], k)

\* The URI of the first item of the table the image names.
FirstUri(image) ==
    LET k == CHOOSE k \in 1..Len(service_image_map) :
                 /\ NamesService(image, k)
                 /\ \A j \in 1..(k - 1) : ~NamesService(image, j)
    IN  service_image_map[k].ecr_uri

\* Where the pod template of a workload holds its pod spec.
PodPath(d) ==
    IF Kind(d) = "CronJob"
    THEN << "spec", "jobTemplate", "spec", "template", "spec" >>
    ELSE << "spec", "template", "spec" >>

IsWorkload(d) == Kind(d) \in WorkloadKinds /\ HasPath(d, PodPath(d))

\* The containers or initContainers list of a workload, empty when absent.
ListOf(d, key) ==
    LET pod == GetPath(d, PodPath(d))
    IN  IF key \in DOMAIN pod THEN pod[key] ELSE << >>

KnownAt(d, key) == { j \in 1..Len(ListOf(d, key)) : IsKnownImage(ListOf(d, key)[j]) }

LogCount(what) == Len(SelectSeq(log, LAMBDA m : m.msg = what))

Replaced == tstep >= 1
Namespaced == tstep = Len(transformations)

\* C1: in a Deployment, StatefulSet, DaemonSet, Job or CronJob, every entry
\* of containers and initContainers whose image is a service name or
\* <service>:<tag> holds, after replace_images_with_ecr, the URI of the
\* first matching item of the table, and is rewritten exactly once.
C1_ImagesRewritten ==
    (Replaced /\ IsWorkload(doc0)) =>
        /\ \A key \in {"containers", "initContainers"} :
              /\ Len(ListOf(obj, key)) = Len(ListOf(doc0, key))
              /\ \A j \in KnownAt(doc0, key) :
                    ListOf(obj, key)[j]["image"] = FirstUri(ListOf(doc0, key)[j]["image"])
        /\ LogCount("image") = Cardinality(KnownAt(doc0, "containers"))
        /\ LogCount("init") = Cardinality(KnownAt(doc0, "initContainers"))

\* A CronJob whose container 'cart' and init container 'ui:1' were rewritten.
C1_Witness ==
    /\ Replaced
    /\ Kind(doc0) = "CronJob"
    /\ IsWorkload(doc0)
    /\ Len(ListOf(doc0, "containers")) = 1
    /\ Len(ListOf(doc0, "initContainers")) = 1
    /\ Get(ListOf(doc0, "containers")[1], "image", EmptyStr) = Str_cart
    /\ Get(ListOf(doc0, "initContainers")[1], "image", EmptyStr) = Str_ui1
    /\ ListOf(obj, "containers")[1]["image"] = ImageUri("app-cart")
    /\ ListOf(obj, "initContainers")[1]["image"] = ImageUri("ui-ui")

\* C2 as claimed: a document whose kind is not a recognized one goes
\* through the transformations unmodified.
C2_UnrecognizedUnmodified ==
    Kind(doc0) \notin RecognizedKinds => obj = doc0

\* The document with metadata.namespace set, when it has metadata.
WithNamespace(d) ==
    IF "metadata" \in DOMAIN d
    THEN SetKey(d, "metadata", SetKey(d["metadata"], "namespace", namespace_name))
    ELSE d

\* C2 amended: for a document whose kind is not a recognized one,
\* replace_images_with_ecr changes nothing and logs nothing, and the two
\* transformations change nothing but metadata.namespace.
C2_UnrecognizedOnlyNamespaced ==
    Kind(doc0) \notin RecognizedKinds =>
        /\ log = << >>
        /\ (tstep <= 1 => obj = doc0)
        /\ (Namespaced => obj = WithNamespace(doc0))

\* A ConfigMap with a pod template naming services, put into the namespace
\* and otherwise untouched.
C2_Witness ==
    /\ Namespaced
    /\ Kind(doc0) = "ConfigMap"
    /\ "metadata" \in DOMAIN doc0
    /\ "namespace" \notin DOMAIN doc0["metadata"]
    /\ "spec" \in DOMAIN doc0
    /\ doc0["spec"] = TemplateSpec(SamplePod)
    /\ obj["spec"] = doc0["spec"]
    /\ obj["metadata"]["namespace"] = namespace_name
    /\ obj # doc0

\* The fields the transformations may change, blanked out: the namespace,
\* the type of a Service, and the images that named a service in `from`.
MaskList(cs, cs0) ==
    [j \in 1..Len(cs) |->
        IF j <= Len(cs0) /\ IsKnownImage(cs0[j])
        THEN SetKey(cs[j], "image", "*") ELSE cs[j]]

MaskPod(pod, pod0) ==
    [k \in DOMAIN pod |->
        IF k \in {"containers", "initContainers"} /\ k \in DOMAIN pod0
        THEN MaskList(pod[k], pod0[k]) ELSE pod[k]]

MaskImages(d, from) ==
    IF IsWorkload(from) /\ HasPath(d, PodPath(from))
    THEN SetPath(d, PodPath(from),
                 MaskPod(GetPath(d, PodPath(from)), GetPath(from, PodPath(from))))
    ELSE d

MaskType(d) ==
    IF Kind(d) = "Service" /\ "spec" \in DOMAIN d
    THEN SetKey(d, "spec", SetKey(d["spec"], "type", "*"))
    ELSE d

MaskNamespace(d) ==
    IF "metadata" \in DOMAIN d
    THEN SetKey(d, "metadata", SetKey(d["metadata"], "namespace", "*"))
    ELSE d

Masked(d, from) == MaskNamespace(MaskType(MaskImages(d, from)))

\* C3: the transformations leave kind, metadata.name and every other field
\* as they were; only the images that named a service, metadata.namespace
\* and the type of a Service may differ.
C3_OnlyNamedFieldsChange ==
    /\ DOMAIN obj = DOMAIN doc0
    /\ Kind(obj) = Kind(doc0)
    /\ ("metadata" \in DOMAIN doc0 =>
           /\ DOMAIN obj["metadata"] \ {"namespace"} = DOMAIN doc0["metadata"] \ {"namespace"}
           /\ ("name" \in DOMAIN doc0["metadata"] =>
                  obj["metadata"]["name"] = doc0["metadata"]["name"]))
    /\ Masked(obj, doc0) = Masked(doc0, doc0)

\* A Deployment with a rewritten container beside one that matched nothing.
C3_Witness ==
    /\ Namespaced
    /\ Kind(doc0) = "Deployment"
    /\ IsWorkload(doc0)
    /\ "metadata" \in DOMAIN doc0
    /\ Len(ListOf(doc0, "containers")) = 2
    /\ Get(ListOf(doc0, "containers")[1], "image", EmptyStr) = Str_cartx
    /\ Get(ListOf(doc0, "containers")[2], "image", EmptyStr) = Str_cart
    /\ ListOf(obj, "containers")[1]["image"] = Str_cartx
    /\ ListOf(obj, "containers")[2]["image"] = ImageUri("app-cart")
    /\ obj["metadata"]["namespace"] = namespace_name

\* C4: a step that invokes apply_namespace on a document with metadata
\* leaves metadata.namespace = 'retailstore' and changes nothing else; a
\* second application changes nothing, and a namespace that was already
\* right leaves the document as it was.
C4_NamespaceIdempotent ==
    [][ (tstep < Len(transformations)
         /\ transformations[tstep + 1] = "apply_namespace") =>
            /\ ("metadata" \in DOMAIN obj =>
                   /\ obj'["metadata"]["namespace"] = namespace_name
                   /\ obj' = WithNamespace(obj))
            /\ apply_namespace(obj') = obj'
            /\ (("metadata" \in DOMAIN obj
                 /\ "namespace" \in DOMAIN obj["metadata"]
                 /\ obj["metadata"]["namespace"] = namespace_name) => obj' = obj)
      ]_vars

\* A document whose namespace 'default' was overwritten.
C4_Witness ==
    /\ Namespaced
    /\ "metadata" \in DOMAIN doc0
    /\ "namespace" \in DOMAIN doc0["metadata"]
    /\ doc0["metadata"]["namespace"] = "default"
    /\ obj["metadata"]["namespace"] = namespace_name

\* The name holds the letters u, i next to each other, in either case.
HoldsUi(name) ==
    \E j \in 1..(Len(name) - 1) :
        name[j] \in {"u", "U"} /\ name[j + 1] \in {"i", "I"}

\* C5: a Service whose metadata.name holds 'ui' in either case has
\* spec.type = 'LoadBalancer' after the transformation, whatever it had
\* before, a missing type or a missing spec included.
C5_UiServiceLoadBalancer ==
    (Replaced
     /\ Kind(doc0) = "Service"
     /\ "metadata" \in DOMAIN doc0
     /\ "name" \in DOMAIN doc0["metadata"]
     /\ HoldsUi(doc0["metadata"]["name"])) =>
        /\ HasPath(obj, << "spec", "type" >>)
        /\ obj["spec"]["type"] = "LoadBalancer"

---------------------------------------------------------------------------
(* Properties of the run *)

\* The directory exists and holds at least one manifest.
HasManifests(dir) == dir.exists /\ dir.yaml + dir.yml >= 1

\* The manifests found in a directory: every *.yaml and every *.yml file.
FoundFiles(dir) ==
    { [ext |-> "yaml", n |-> k] : k \in 1..dir.yaml }
    \cup { [ext |-> "yml", n |-> k] : k \in 1..dir.yml }

Submitted == DOMAIN config_groups

\* The deployment loop is past the k-th service.
Processed(k) == pc \in {"export", "done"} \/ (pc = "deploy" /\ k < idx)

AfterCheck == pc \in {"deploy", "export", "done"}

DiagAbout(service, level) ==
    \E k \in 1..Len(diag) : diag[k].about = service /\ diag[k].level = level

\* C6: a ConfigGroup is submitted only for a service whose directory exists
\* and holds a manifest; a service without one is skipped with a warning,
\* never counted, and every other service is still processed.
C6_SkippedNotFailed ==
    /\ \A s \in Submitted : HasManifests(fs[s])
    /\ AfterCheck => deployed_count = Cardinality(Submitted)
    /\ \A k \in 1..Len(services) :
          LET s == services[k]
          IN  Processed(k) =>
                 IF HasManifests(fs[s])
                 THEN s \in Submitted /\ DiagAbout(s, "info")
                 ELSE /\ s \notin Submitted
                      /\ DiagAbout(s, "warn")
                      /\ ~DiagAbout(s, "error")
                      /\ ~DiagAbout(s, "info")

\* The run is over: the first service had no directory, the second an empty
\* one, and the last was deployed all the same.
C6_Witness ==
    /\ pc = "done"
    /\ ~fs["cart"].exists
    /\ fs["catalog"].exists
    /\ ~HasManifests(fs["catalog"])
    /\ "ui" \in Submitted
    /\ deployed_count >= 1
    /\ DiagAbout("cart", "warn")

NoManifests == \A s \in ServiceSet : ~HasManifests(fs[s])

\* C7: when no service has a manifest, the run reports an error, deploys
\* nothing and halts: nothing is logged or exported after the error.
C7_NoManifestsHalts ==
    (NoManifests /\ AfterCheck) =>
        /\ \E k \in 1..Len(diag) : diag[k].level = "error"
        /\ Submitted = {}
        /\ deployed_count = 0
        /\ \A k \in 1..Len(diag) : diag[k].level = "error"
        /\ exports = NoExports

SeqSet(q) == { q[k] : k \in 1..Len(q) }

\* C8: at the end, deployed_services lists exactly the services a
\* ConfigGroup was submitted for, each once, and deployed_count is its
\* length; two services with manifests give 2.
C8_ExportsMatchSubmitted ==
    pc = "done" =>
        /\ SeqSet(exports["deployed_services"]) = Submitted
        /\ Len(exports["deployed_services"]) = Cardinality(Submitted)
        /\ exports["deployed_count"] = Len(exports["deployed_services"])
        /\ (Cardinality({ s \in ServiceSet : HasManifests(fs[s]) }) = 2 =>
               exports["deployed_count"] = 2)

\* Two services deployed, one of them from *.yml files alone.
C8_Witness ==
    /\ pc = "done"
    /\ exports["deployed_count"] = 2
    /\ exports["deployed_services"] = << "cart", "ui" >>
    /\ fs["cart"].yaml = 0
    /\ fs["cart"].yml = 1
    /\ Submitted = {"cart", "ui"}

AllImagesRes == { ImageRes(n) : n \in ImageSet }

TablePopulated ==
    /\ Len(service_image_map) = Cardinality(ServiceSet)
    /\ { service_image_map[k].service_name : k \in 1..Len(service_image_map) }
           = { NameChars(s) : s \in ServiceSet }
    /\ \A k \in 1..Len(service_image_map) :
          \E n \in ImageSet : service_image_map[k].ecr_uri = ImageUri(n)

C10_AllFoundFilesSubmitted ==
    \A s \in Submitted : FoundFiles(fs[s]) \subseteq config_groups[s].files

=============================================================================
